---- MODULE Spec2Model ----
(***************************************************************************)
(* Lifecycle model of splashscreen.SplashScreen (src/splashscreen/         *)
(* splashscreen.py): the controller's attributes, the Tk timer queues it   *)
(* schedules callbacks on, and one action per public operation or          *)
(* dispatched callback.                                                    *)
(*                                                                         *)
(* Progress values are integers counted in units of 0.0005, so that the    *)
(* code's 0.001 gap below the maximum is Epsilon = 2 units and a value     *)
(* strictly between maximum - 0.001 and maximum is representable.          *)
(***************************************************************************)
EXTENDS Integers, Sequences, FiniteSets, TLC

\* ------------------------------------------------------------------ bounds
MaxWindows == 2        \* windows one controller materializes in a run
MaxQueue == 2          \* callbacks pending on the parent's after() queue
MaxDelayed == 1        \* after(delay, do_close) timers pending at one time
MaxText == 2           \* tokens in the label text
MaxProgress == 5       \* the progress bar's configured 'max'
MaxAnimate == 1        \* autoincrement ticks of an indeterminate bar

\* --------------------------------------------------------------- constants
Epsilon == 2           \* 0.001, in units of 0.0005
One == 1000 * Epsilon  \* 1.0, in units of 0.0005

MessageInputs == {[text |-> "a", append |-> FALSE], [text |-> "b", append |-> TRUE]}
Message == <<"m">>
BgDefault == "c0"
Colors == {"c0", "c1"}
ColorInputs == Colors \cup {"bad"}
Faults == {"none", "cancel", "stop", "enable", "quit"}
StepAmounts == {One, MaxProgress * One - 1}
ProgressInputs == {0 - One, 2 * One, MaxProgress * One}

VARIABLES
    \* configuration, fixed by __init__
    rootwindow,          \* TRUE iff a parent window (mainwindow) was supplied
    block_mainwindow,    \* block_main
    auto_close_after,    \* <<>> for None, <<d>> for a duration of d seconds
    progressbar_spec,    \* "none", "determinate" or "indeterminate"
    title_text,          \* TRUE iff a non-empty title was given
    close_button,        \* close_button
    placement,           \* the placement argument: a string, a dict or anything else
    \* environment
    default_root,        \* TRUE iff tkinter._default_root is a live Tk
    disabled_supported,  \* TRUE iff the platform accepts wm_attributes -disabled
    fault,               \* the teardown step whose toolkit call raises
    request,             \* <<winfo_reqwidth, winfo_reqheight>> of the window
    screen,              \* <<winfo_screenwidth, winfo_screenheight>>
    \* runtime attributes
    is_shown,            \* _is_shown
    root,                \* "unset" (no attribute), "none" or "window"
    owns_root,           \* _owns_root
    auto_close_id,       \* "unset" (no attribute), "empty" ('') or "id"
    geometry,            \* the window's <<width, height, x, y>>, <<>> without a window
    text,                \* the label widget's text
    bg,                  \* the _bg StringVar's value ("unset" before show)
    widget_bg,           \* background of the window, label, title, close button
    expected,            \* the label text the update_message calls made so far ask for
    pb_value,            \* the progress bar's value
    animating,           \* the indeterminate animation is running
    parent_disabled,     \* the parent's -disabled attribute
    \* toolkit queues
    parent_queue,        \* do_update callbacks pending on rootwindow.after(0, ...)
    auto_timer,          \* the auto-close timer of the current window is pending
    delayed,             \* after(delay, do_close) timers pending on the current window
    stale,               \* such timers outliving the Toplevel they were set on
    in_mainloop,         \* the caller is suspended in root.mainloop()
    scope,               \* the caller's place: "outside" or "inside" a with block
    exc,                 \* an exception of the with block propagates past __exit__
    \* observation
    created,             \* windows materialized so far
    effects,             \* how often each teardown side effect happened
    unit_steps,          \* unit steps since the bar was created, -1 once mixed
    res                  \* outcome of the last step: "ok" on the normal path,
                         \* otherwise the operation and how it ended

cfgVars == <<rootwindow, block_mainwindow, auto_close_after, progressbar_spec,
             title_text, close_button, placement>>
envVars == <<disabled_supported, fault, request, screen>>
attrVars == <<is_shown, root, owns_root, auto_close_id, default_root, geometry>>
viewVars == <<text, bg, widget_bg, expected>>
pbVars == <<pb_value, animating, unit_steps>>
queueVars == <<parent_queue, auto_timer, delayed, stale, in_mainloop>>
progVars == <<attrVars, viewVars, pbVars, queueVars, parent_disabled, created, effects>>
callerVars == <<scope, exc>>
vars == <<cfgVars, envVars, callerVars, progVars, res>>

NoWidgetBg == [win |-> "none", label |-> "none", title |-> "none", btn |-> "none"]
NoEffects == [cancel |-> 0, stop |-> 0, enable |-> 0, quit |-> 0, destroy |-> 0]

\* Python truthiness of the configured duration (None and 0 are falsy).
Truthy(d) == d # <<>> /\ d[1] # 0

\* ------------------------------------------------------------ construction
\* The optional widgets a run is configured with: every combination of title
\* and close button without a progress bar, and one configuration for each
\* progress bar mode.
WidgetConfigs ==
    [pb : {"none"}, title : BOOLEAN, button : BOOLEAN]
    \cup {[pb |-> "determinate", title |-> TRUE, button |-> TRUE],
          [pb |-> "indeterminate", title |-> FALSE, button |-> TRUE]}

\* The controller as __init__ leaves it, for every configuration.
Constructed ==
    /\ rootwindow \in BOOLEAN
    /\ block_mainwindow \in BOOLEAN
    /\ auto_close_after \in {<<>>, <<0>>, <<1>>}
    /\ \E p \in WidgetConfigs :
          /\ progressbar_spec = p.pb
          /\ title_text = p.title
          /\ close_button = p.button
    /\ default_root \in (IF rootwindow THEN {TRUE} ELSE BOOLEAN)
    /\ disabled_supported \in (IF rootwindow /\ block_mainwindow THEN BOOLEAN ELSE {TRUE})
    /\ is_shown = FALSE
    /\ root = "unset"
    /\ owns_root = FALSE
    /\ auto_close_id = "unset"
    /\ geometry = <<>>
    /\ text = <<>>
    /\ bg = "unset"
    /\ widget_bg = NoWidgetBg
    /\ expected = <<>>
    /\ pb_value = 0
    /\ animating = FALSE
    /\ unit_steps = 0
    /\ parent_disabled = FALSE
    /\ parent_queue = <<>>
    /\ auto_timer = FALSE
    /\ delayed = 0
    /\ stale = 0
    /\ in_mainloop = FALSE
    /\ scope = "outside"
    /\ exc = FALSE
    /\ created = 0
    /\ effects = NoEffects
    /\ res = "ok"

\* The default placement on one screen, with one requested size.
DefaultGeometryInputs ==
    /\ placement = [kind |-> "str", tag |-> "BR", dict |-> <<>>]
    /\ request = <<300, 200>>
    /\ screen = <<800, 600>>

\* Every toolkit call of the teardown succeeds.
Init == Constructed /\ DefaultGeometryInputs /\ fault = "none"

\* Attributes that __init__ only annotates exist once _create_window assigned them.
HasLabel == created > 0
HasProgressbar == progressbar_spec # "none" /\ created > 0
Standalone == ~rootwindow

\* -------------------------------------------------------------- placement
Tags == {"BR", "BL", "TR", "TL", "C", "CL", "CR", "BC", "TC"}

\* EnumPlacement: the nine anchors as functions of the window and screen size.
EnumPlacement(tag, w, h, sw, sh) ==
    CASE tag = "BR" -> <<sw - w - 10, sh - h - 50>>
      [] tag = "BL" -> <<10, sh - h - 50>>
      [] tag = "TR" -> <<sw - w - 10, 10>>
      [] tag = "TL" -> <<10, 10>>
      [] tag = "C"  -> <<(sw - w) \div 2, (sh - h) \div 2>>
      [] tag = "CL" -> <<10, (sh - h) \div 2>>
      [] tag = "CR" -> <<sw - w - 10, (sh - h) \div 2>>
      [] tag = "BC" -> <<(sw - w) \div 2, sh - h - 50>>
      [] tag = "TC" -> <<(sw - w) \div 2, 10>>

\* str.upper() on the tags the runs use.
Upper(tag) ==
    CASE tag = "br" -> "BR"
      [] tag = "tl" -> "TL"
      [] OTHER -> tag

\* Placement.__init__ with an unknown tag falling back to the top left.
PlacementUnknownToTL(p) ==
    IF p.kind = "dict"
    THEN [is_dict |-> TRUE, tag |-> "", dict |-> p.dict]
    ELSE [is_dict |-> FALSE,
          tag |-> IF p.kind = "str" /\ Upper(p.tag) \in Tags THEN Upper(p.tag) ELSE "TL",
          dict |-> <<>>]

\* Placement.__init__: a dict is kept, a known tag selects its anchor, and an
\* unknown tag or any other type selects BR.
Placement(p) ==
    IF p.kind = "dict"
    THEN [is_dict |-> TRUE, tag |-> "", dict |-> p.dict]
    ELSE [is_dict |-> FALSE,
          tag |-> IF p.kind = "str" /\ Upper(p.tag) \in Tags THEN Upper(p.tag) ELSE "BR",
          dict |-> <<>>]

\* dict.get(key, default)
Get(d, key, default) == IF key \in DOMAIN d THEN d[key] ELSE default

\* compute_geometry without its right-edge clamp.
ClampRightNever(x, width, sw) == x

\* The two clamps compute_geometry ends with.
ClampRight(x, width, sw) == IF x + width > sw THEN sw - width ELSE x
ClampBottom(y, height, sh) == IF y + height + 40 > sh THEN sh - height - 40 ELSE y

min_width == 200
min_height == 100

\* compute_geometry; the result is the geometry string's four numbers.
ComputeGeometry(pl, reqwidth, reqheight, sw, sh, has_progressbar, has_title) ==
    LET h1 == IF has_title THEN (IF min_height > 120 THEN min_height ELSE 120) ELSE min_height
        h2 == IF has_progressbar THEN (IF h1 > 150 THEN h1 ELSE 150) ELSE h1
        width == IF reqwidth > min_width THEN reqwidth ELSE min_width
        height == IF reqheight > h2 THEN reqheight ELSE h2
        xy == IF pl.is_dict
              THEN <<Get(pl.dict, "x", 100), Get(pl.dict, "y", 100)>>
              ELSE EnumPlacement(pl.tag, width, height, sw, sh)
    IN  <<width, height, ClampRight(xy[1], width, sw), ClampBottom(xy[2], height, sh)>>

\* _resize_and_position: the geometry the window is given.
ResizeAndPosition ==
    ComputeGeometry(Placement(placement), request[1], request[2], screen[1], screen[2],
                    progressbar_spec # "none", title_text)

\* ------------------------------------------------------- visual mutations
\* _update_background: the trace callback of the _bg variable.  self.title and
\* self.close_btn are assigned only when a title or a close button is
\* configured; reading the first one that was never assigned raises
\* AttributeError, which ends the callback (Tk reports it and carries on).
UpdateBackground(wbg, c) ==
    LET w1 == [wbg EXCEPT !.win = c, !.label = c]
    IN  IF ~title_text THEN w1
        ELSE LET w2 == [w1 EXCEPT !.title = c]
             IN  IF ~close_button THEN w2 ELSE [w2 EXCEPT !.btn = c]

\* The body of a do_update worker once self.root is known to be a window.
ApplyUpdate(v, cb) ==
    IF cb.kind = "msg"
    THEN [v EXCEPT !.text = IF cb.append THEN v.text \o cb.text ELSE cb.text]
    ELSE [v EXCEPT !.bg = cb.color, !.wbg = UpdateBackground(v.wbg, cb.color)]

\* root.update() inside _create_window runs every callback pending on the
\* parent's queue, in the order they were scheduled.
RECURSIVE Drain(_, _)
Drain(v, q) == IF q = <<>> THEN v ELSE Drain(ApplyUpdate(v, Head(q)), Tail(q))

MsgCallback(t, append) == [kind |-> "msg", text |-> <<t>>, append |-> append, color |-> "none"]
ColorCallback(c) == [kind |-> "color", text |-> <<>>, append |-> FALSE, color |-> c]

PendingAppends == Cardinality({i \in DOMAIN parent_queue : parent_queue[i].append})

\* _normalize_color on a string: an invalid colour falls back to the default.
NormalizeColor(value, default) == IF value \in Colors THEN value ELSE default

\* ------------------------------------------------------------------- show
\* show() without its already-shown test.
ShowNeverAlreadyShown == FALSE

ShowAlreadyShown == is_shown

AutoCloseConfigured == Truthy(auto_close_after)

BlocksParent == block_mainwindow /\ rootwindow

\* A show() that enters the loop whenever it is asked to block.
EntersMainloopAlways(blocking, owns) == blocking

\* show() runs root.mainloop() when asked to block on a standalone controller
\* that created its own Tk.
EntersMainloop(blocking, owns) == blocking /\ Standalone /\ owns

CreateWindow(blocking) ==
    LET owns == Standalone /\ ~default_root
        c == NormalizeColor(BgDefault, BgDefault)
        fresh == [text |-> Message, bg |-> c,
                  wbg |-> [win |-> c, label |-> c,
                           title |-> IF title_text THEN c ELSE "none",
                           btn |-> IF close_button THEN c ELSE "none"]]
        v == IF BlocksParent THEN Drain(fresh, parent_queue) ELSE fresh
    IN  /\ created < MaxWindows
        /\ created' = created + 1
        /\ root' = "window"
        /\ owns_root' = owns
        /\ default_root' = TRUE
        /\ geometry' = ResizeAndPosition
        /\ text' = v.text
        /\ bg' = v.bg
        /\ widget_bg' = v.wbg
        \* calls whose callbacks are still pending take effect on the new label
        /\ expected' = Drain(fresh, parent_queue).text
        /\ IF progressbar_spec # "none"
           THEN /\ pb_value' = 0
                /\ animating' = (progressbar_spec = "indeterminate")
                /\ unit_steps' = 0
           ELSE UNCHANGED pbVars
        /\ parent_queue' = IF BlocksParent THEN <<>> ELSE parent_queue
        /\ parent_disabled' = IF BlocksParent /\ disabled_supported THEN TRUE ELSE parent_disabled
        /\ IF AutoCloseConfigured
           THEN auto_close_id' = "id" /\ auto_timer' = TRUE
           ELSE UNCHANGED <<auto_close_id, auto_timer>>
        /\ is_shown' = TRUE
        /\ in_mainloop' = EntersMainloop(blocking, owns)
        /\ UNCHANGED <<delayed, stale, effects>>
        /\ res' = "ok"

\* The body of show().
ShowCall(blocking) ==
    /\ ~in_mainloop
    /\ IF ShowAlreadyShown
       THEN res' = "show_already_shown" /\ UNCHANGED progVars
       ELSE CreateWindow(blocking)

Show(blocking) ==
    /\ ShowCall(blocking)
    /\ UNCHANGED <<cfgVars, envVars, callerVars>>

\* ------------------------------------------------------------------ close
\* close() without its early return.
CloseNeverReturnsEarly == FALSE

\* close() returns at once unless the controller is shown and has a window.
CloseReturnsEarly == ~is_shown \/ root # "window"

\* A teardown that leaves the auto-close timer alone.
CancelRunsNever == FALSE

\* The timer-cancel step runs when _auto_close_id was ever assigned; it is
\* not wrapped in a try of its own, so a raise ends do_close in the outer
\* except.  after_cancel('') raises ValueError.
CancelRuns == auto_close_id # "unset"
CancelRaises == CancelRuns /\ (auto_close_id = "empty" \/ fault = "cancel")

StopRuns == progressbar_spec # "none"
\* A teardown that forgets to re-enable the parent.
ReenableNever == FALSE

ReenableRuns == block_mainwindow /\ rootwindow

\* A teardown that quits the loop whoever owns it.
QuitRunsAlways == TRUE

QuitRuns == Standalone /\ owns_root

\* do_close, the teardown worker; dl counts the delayed timers still pending
\* on the window when it starts.
DoClose(dl) ==
    IF root # "window"
    THEN /\ res' = "do_close_ValueError"
         /\ delayed' = dl
         /\ UNCHANGED <<attrVars, viewVars, pbVars, parent_disabled, auto_timer, stale, in_mainloop, effects>>
    ELSE IF CancelRaises
    THEN /\ res' = "close_warning_logged"
         /\ delayed' = dl
         /\ UNCHANGED <<attrVars, viewVars, pbVars, parent_disabled, auto_timer, stale, in_mainloop, effects>>
    ELSE /\ auto_close_id' = IF CancelRuns THEN "empty" ELSE auto_close_id
         /\ auto_timer' = IF CancelRuns THEN FALSE ELSE auto_timer
         /\ parent_disabled' = IF ReenableRuns /\ disabled_supported /\ fault # "enable"
                               THEN FALSE ELSE parent_disabled
         \* the dispatch loop of an owned root ends with quit() or, failing
         \* that, with the destruction of its only main window
         /\ in_mainloop' = IF QuitRuns THEN FALSE ELSE in_mainloop
         /\ root' = "none"
         /\ is_shown' = FALSE
         /\ default_root' = IF owns_root THEN FALSE ELSE default_root
         /\ geometry' = <<>>
         \* timers of an owned root die with its interpreter; those of a
         \* Toplevel stay pending with their Tcl command deleted
         /\ delayed' = 0
         /\ stale' = IF owns_root THEN stale ELSE stale + dl
         /\ effects' = [cancel |-> effects.cancel + (IF CancelRuns THEN 1 ELSE 0),
                        stop |-> effects.stop + (IF StopRuns /\ fault # "stop" THEN 1 ELSE 0),
                        enable |-> effects.enable
                                   + (IF ReenableRuns /\ disabled_supported /\ fault # "enable"
                                      THEN 1 ELSE 0),
                        quit |-> effects.quit + (IF QuitRuns /\ fault # "quit" THEN 1 ELSE 0),
                        destroy |-> effects.destroy + 1]
         \* the widgets are gone with the window: nothing reads their state
         \* again before _create_window replaces them
         /\ text' = <<>>
         /\ bg' = "unset"
         /\ widget_bg' = NoWidgetBg
         /\ expected' = <<>>
         /\ pb_value' = 0
         /\ animating' = FALSE      \* stopped by stop(), or gone with the widget
         /\ unit_steps' = 0
         /\ res' = "ok"
         /\ UNCHANGED owns_root

\* self.close() with delay 0, from the caller or from a Tk callback.
CloseNow(dl) ==
    IF CloseReturnsEarly
    THEN /\ res' = "close_noop"
         /\ delayed' = dl
         /\ UNCHANGED <<attrVars, viewVars, pbVars, parent_disabled, auto_timer, stale, in_mainloop, effects>>
    ELSE DoClose(dl)

\* A close() that ignores its delay.
DeferredNever(delay) == FALSE

\* close() hands do_close to root.after() for a positive delay.
Deferred(delay) == delay > 0

Close(delay) ==
    /\ ~in_mainloop
    /\ IF Deferred(delay) /\ ~CloseReturnsEarly
       THEN /\ delayed + stale < MaxDelayed
            /\ delayed' = delayed + 1
            /\ res' = "ok"
            /\ UNCHANGED <<attrVars, viewVars, pbVars, parent_disabled, auto_timer, stale, in_mainloop, effects>>
       ELSE CloseNow(delayed)
    /\ UNCHANGED <<cfgVars, envVars, callerVars, parent_queue, created>>

\* The auto-close timer fires and runs self.close.
AutoCloseFire ==
    /\ auto_timer
    /\ IF CloseReturnsEarly \/ CancelRaises
       THEN /\ auto_timer' = FALSE
            /\ res' = IF CloseReturnsEarly THEN "close_noop" ELSE "close_warning_logged"
            /\ UNCHANGED <<attrVars, viewVars, pbVars, parent_disabled, delayed, stale, in_mainloop, effects>>
       ELSE DoClose(delayed)
    /\ UNCHANGED <<cfgVars, envVars, callerVars, parent_queue, created>>

\* A delayed do_close timer of the current window fires.
DelayedCloseFire ==
    /\ delayed > 0
    /\ DoClose(delayed - 1)
    /\ UNCHANGED <<cfgVars, envVars, callerVars, parent_queue, created>>

\* A timer set on a Toplevel that was destroyed in the meantime fires: its
\* Tcl command is gone and no Python code runs.
StaleTimerFire ==
    /\ stale > 0
    /\ stale' = stale - 1
    /\ res' = "timer_invalid_command"
    /\ UNCHANGED <<cfgVars, envVars, callerVars, attrVars, viewVars, pbVars, parent_disabled,
                   parent_queue, auto_timer, delayed, in_mainloop, created, effects>>

\* <Button-1> on the close button runs self.close().
ButtonClick ==
    /\ close_button
    /\ root = "window"
    /\ CloseNow(delayed)
    /\ UNCHANGED <<cfgVars, envVars, callerVars, parent_queue, created>>

\* ------------------------------------------------------------ scoped use
\* An __exit__ that swallows the block's exception.
ExitSuppresses == TRUE

\* __exit__ returns False: an exception of the block is not suppressed.
ExitReturn == FALSE

\* __enter__: show(), then the block runs with the controller.
Enter ==
    /\ scope = "outside"
    /\ ShowCall(FALSE)
    /\ scope' = "inside"
    /\ exc' = FALSE
    /\ UNCHANGED <<cfgVars, envVars>>

\* __exit__ when the block ended normally (raised = FALSE) or by an exception.
Exit(raised) ==
    /\ scope = "inside"
    /\ ~in_mainloop
    /\ CloseNow(delayed)
    /\ scope' = "outside"
    /\ exc' = (raised /\ ~ExitReturn)
    /\ UNCHANGED <<cfgVars, envVars, parent_queue, created>>

\* ------------------------------------------------ update_message / color
\* update_message without its state check.
UpdateMessageNeverRejected == FALSE

\* The state check both update operations start with (RuntimeError).
UpdateMessageRejected == ~is_shown \/ ~HasLabel
UpdateColorRejected == ~is_shown

\* after(0, ...) with the newest callback run first.
EnqueueFirst(q, cb) == <<cb>> \o q

\* rootwindow.after(0, do_update): Tcl runs timers of equal due time in the
\* order they were created.
Enqueue(q, cb) == Append(q, cb)

\* An update that runs do_update inside the call even with a parent.
RunUnscheduled(cb) ==
    LET v == ApplyUpdate([text |-> text, bg |-> bg, wbg |-> widget_bg], cb)
    IN  /\ text' = v.text
        /\ bg' = v.bg
        /\ widget_bg' = v.wbg
        /\ res' = "ok"
        /\ UNCHANGED parent_queue

\* Either run do_update now (standalone) or queue it on the parent.
RunOrSchedule(cb) ==
    IF rootwindow
    THEN /\ Len(parent_queue) < MaxQueue
         /\ parent_queue' = Enqueue(parent_queue, cb)
         /\ res' = "ok"
         /\ UNCHANGED <<text, bg, widget_bg>>
    ELSE LET v == ApplyUpdate([text |-> text, bg |-> bg, wbg |-> widget_bg], cb)
         IN  /\ text' = v.text
             /\ bg' = v.bg
             /\ widget_bg' = v.wbg
             /\ res' = "ok"
             /\ UNCHANGED parent_queue

UpdateMessage(t, append) ==
    /\ ~in_mainloop
    /\ IF UpdateMessageRejected
       THEN res' = "update_message_RuntimeError" /\ UNCHANGED <<viewVars, parent_queue>>
       ELSE /\ append => Len(text) + PendingAppends < MaxText
            /\ RunOrSchedule(MsgCallback(t, append))
            /\ expected' = IF append THEN expected \o <<t>> ELSE <<t>>
    /\ UNCHANGED <<cfgVars, envVars, callerVars, attrVars, pbVars, parent_disabled, created, effects,
                   auto_timer, delayed, stale, in_mainloop>>

UpdateColor(c) ==
    /\ ~in_mainloop
    /\ IF UpdateColorRejected
       THEN res' = "update_color_RuntimeError" /\ UNCHANGED <<viewVars, parent_queue>>
       ELSE RunOrSchedule(ColorCallback(NormalizeColor(c, bg))) /\ UNCHANGED expected
    /\ UNCHANGED <<cfgVars, envVars, callerVars, attrVars, pbVars, parent_disabled, created, effects,
                   auto_timer, delayed, stale, in_mainloop>>

\* The parent's loop dispatches the oldest pending do_update.  The worker
\* raises ValueError when the window is gone; Tk reports it.
DispatchUpdate ==
    /\ parent_queue # <<>>
    /\ parent_queue' = Tail(parent_queue)
    /\ IF root # "window"
       THEN res' = "do_update_ValueError" /\ UNCHANGED viewVars
       ELSE LET v == ApplyUpdate([text |-> text, bg |-> bg, wbg |-> widget_bg],
                                 Head(parent_queue))
            IN  /\ text' = v.text
                /\ bg' = v.bg
                /\ widget_bg' = v.wbg
                /\ res' = "ok"
                /\ UNCHANGED expected
    /\ UNCHANGED <<cfgVars, envVars, callerVars, attrVars, pbVars, parent_disabled, created, effects,
                   auto_timer, delayed, stale, in_mainloop>>

\* ----------------------------------------------------------- progress bar
\* C fmod, as ttk's step command applies it in determinate mode.
Fmod(v, m) == IF v >= 0 THEN v % m ELSE 0 - ((0 - v) % m)

\* step_progressbar clamping to the maximum itself, without the gap.
StepValueToMaximum(current, amount, maximum) ==
    IF current + amount >= maximum THEN maximum ELSE current + amount

\* step_progressbar's new value from the current one.
StepValue(current, amount, maximum) ==
    IF current + amount >= maximum
    THEN maximum - Epsilon
    ELSE IF progressbar_spec = "determinate"
         THEN Fmod(current + amount, maximum)
         ELSE current + amount

Min(a, b) == IF a < b THEN a ELSE b
Max(a, b) == IF a > b THEN a ELSE b

\* set_progress's clamp.
ClampProgress(value, maximum) == Max(0, Min(value, maximum - Epsilon))

Maximum == MaxProgress * One

\* Reading self.progressbar: AttributeError when never assigned; a widget is
\* always truthy, and cget on a destroyed one raises TclError.
ProgressbarAccess(name) ==
    IF ~HasProgressbar THEN name \o "_AttributeError"
    ELSE IF root # "window" THEN name \o "_TclError"
    ELSE "ok"

StepProgressbar(amount) ==
    /\ ~in_mainloop
    /\ res' = ProgressbarAccess("step_progressbar")
    /\ IF ProgressbarAccess("step_progressbar") = "ok"
       THEN /\ pb_value' = StepValue(pb_value, amount, Maximum)
            /\ unit_steps' = IF amount = One /\ unit_steps >= 0
                             THEN Min(unit_steps + 1, MaxProgress + 1)
                             ELSE 0 - 1
            /\ UNCHANGED animating
       ELSE UNCHANGED pbVars
    /\ UNCHANGED <<cfgVars, envVars, callerVars, attrVars, viewVars, queueVars, parent_disabled,
                   created, effects>>

SetProgress(value) ==
    /\ ~in_mainloop
    /\ res' = ProgressbarAccess("set_progress")
    /\ IF ProgressbarAccess("set_progress") = "ok"
       THEN /\ pb_value' = ClampProgress(value, Maximum)
            /\ unit_steps' = 0 - 1
            /\ UNCHANGED animating
       ELSE UNCHANGED pbVars
    /\ UNCHANGED <<cfgVars, envVars, callerVars, attrVars, viewVars, queueVars, parent_disabled,
                   created, effects>>

\* One autoincrement tick of a running indeterminate bar (progressbar.start).
Animate ==
    /\ animating
    /\ root = "window"
    /\ pb_value + One <= MaxAnimate * One
    /\ res' = "ok"
    /\ pb_value' = pb_value + One
    /\ unit_steps' = 0 - 1
    /\ UNCHANGED <<cfgVars, envVars, callerVars, attrVars, viewVars, queueVars, parent_disabled,
                   created, effects, animating>>

\* ---------------------------------------------------------- specification
ShowStep == \E blocking \in BOOLEAN : Show(blocking)
CloseStep == \E delay \in {0, 1} : Close(delay)
UpdateMessageStep == \E m \in MessageInputs : UpdateMessage(m.text, m.append)
UpdateColorStep == \E c \in ColorInputs : UpdateColor(c)
StepProgressbarStep == \E amount \in StepAmounts : StepProgressbar(amount)
SetProgressStep == \E value \in ProgressInputs : SetProgress(value)

Next ==
    \/ ShowStep
    \/ CloseStep
    \/ UpdateMessageStep
    \/ UpdateColorStep
    \/ StepProgressbarStep
    \/ SetProgressStep
    \/ DispatchUpdate
    \/ AutoCloseFire
    \/ DelayedCloseFire
    \/ StaleTimerFire
    \/ ButtonClick
    \/ Animate

Spec == Init /\ [][Next]_vars

\* The controller used as a context manager; the block runs any of the calls
\* and the loop dispatches what they schedule.
ExitStep == \E raised \in BOOLEAN : Exit(raised)

NextScoped ==
    \/ Enter
    \/ ExitStep
    \/ ShowStep
    \/ CloseStep
    \/ UpdateMessageStep
    \/ UpdateColorStep
    \/ DispatchUpdate
    \/ AutoCloseFire
    \/ DelayedCloseFire
    \/ StaleTimerFire
    \/ ButtonClick

InitScoped == Init /\ progressbar_spec = "none"

SpecScoped == InitScoped /\ [][NextScoped]_vars

\* The same program in an environment where one teardown step's toolkit call
\* raises.
FaultStepRuns ==
    \/ fault = "cancel" /\ AutoCloseConfigured
    \/ fault = "stop" /\ StopRuns
    \/ fault = "enable" /\ ReenableRuns
    \/ fault = "quit" /\ Standalone /\ ~default_root

InitFault == Constructed /\ DefaultGeometryInputs /\ fault \in Faults /\ FaultStepRuns

SpecFault == InitFault /\ [][Next]_vars

\* Placement inputs: every anchor, unknown and lower-case tags, a non-string,
\* and dicts with and without their fields.
PlacementInputs ==
    [kind : {"str"}, tag : Tags \cup {"ZZ", "br", "tl", ""}, dict : {<<>>}]
    \cup {[kind |-> "other", tag |-> "", dict |-> <<>>]}
    \cup [kind : {"dict"}, tag : {""},
          dict : {[x |-> 100, y |-> 444], [x |-> 2000], [y |-> 580], <<>>}]
RequestInputs == {150, 300, 795, 800} \X {50, 200, 555, 600}
ScreenInputs == {<<800, 600>>, <<1366, 768>>}

\* show() on a standalone controller, for every placement, requested size and
\* screen.
InitGeometry ==
    /\ Constructed
    /\ ~rootwindow /\ ~block_mainwindow /\ auto_close_after = <<>> /\ default_root
    /\ fault = "none"
    /\ placement \in PlacementInputs
    /\ request \in RequestInputs
    /\ screen \in ScreenInputs

NextGeometry == ShowStep

SpecGeometry == InitGeometry /\ [][NextGeometry]_vars

\* ================================================================== claims

\* C1: Closed is terminal -- once close() has destroyed the window, is_shown()
\* never becomes true again and show() materializes no further window.
C1_ClosedIsTerminal ==
    effects.destroy >= 1 => (~is_shown /\ root = "none" /\ created = 1)

\* C2: close() is idempotent -- close(0) on a shown controller runs each
\* teardown side effect once and destroys the window; close() on a controller
\* that is not shown changes no state and raises nothing; over a run every
\* window is torn down exactly once.
C2_CloseIdempotent ==
    /\ [](/\ effects.destroy + (IF root = "window" THEN 1 ELSE 0) = created
          /\ effects.cancel <= effects.destroy
          /\ effects.enable <= effects.destroy
          /\ effects.quit <= effects.destroy)
    /\ [][/\ (Close(0) /\ ~is_shown) => (res' = "close_noop" /\ UNCHANGED progVars)
          /\ (Close(0) /\ is_shown) =>
                /\ res' = "ok"
                /\ ~is_shown' /\ root' = "none" /\ ~auto_timer'
                /\ effects'.destroy = effects.destroy + 1
                /\ effects'.cancel = effects.cancel + (IF auto_close_id = "id" THEN 1 ELSE 0)
                /\ effects'.quit = effects.quit + (IF owns_root THEN 1 ELSE 0)
                /\ effects'.enable = effects.enable + (IF parent_disabled THEN 1 ELSE 0)]_vars

C2_Witness == res = "close_noop" /\ effects.destroy = 1 /\ created = 1 /\ effects.cancel = 1

\* C3: show() on a controller that is already shown changes nothing (no second
\* window, no second timer, parent untouched) and returns the controller.
C3_ShowWhileShownIsNoop ==
    [][(ShowStep /\ is_shown) => (res' = "show_already_shown" /\ UNCHANGED progVars)]_vars

C3_Witness == res = "show_already_shown" /\ is_shown /\ created = 1 /\ auto_timer

\* C4: before the first show(), update_message and update_color raise
\* RuntimeError, queue no callback and leave every piece of state unchanged.
C4_UpdateBeforeShowRejected ==
    [][created = 0 =>
          /\ UpdateMessageStep => (res' = "update_message_RuntimeError" /\ UNCHANGED progVars)
          /\ UpdateColorStep => (res' = "update_color_RuntimeError" /\ UNCHANGED progVars)]_vars

C4_Witness == created = 0 /\ res = "update_message_RuntimeError" /\ parent_queue = <<>>

\* C5: after close() destroyed the window, update_message, update_color,
\* step_progressbar and set_progress each fail with the state error and close()
\* is a silent no-op.
C5_MutationsAfterCloseRaiseStateError ==
    [][root = "none" =>
          /\ UpdateMessageStep => res' = "update_message_RuntimeError"
          /\ UpdateColorStep => res' = "update_color_RuntimeError"
          /\ StepProgressbarStep => res' = "step_progressbar_RuntimeError"
          /\ SetProgressStep => res' = "set_progress_RuntimeError"
          /\ CloseStep => res' = "close_noop"]_vars

\* C6: whichever single teardown step fails, close(0) on a shown controller
\* still destroys the window, is_shown() becomes false and nothing propagates.
C6_TeardownSurvivesAnyFailingStep ==
    [][(Close(0) /\ is_shown) => (~is_shown' /\ root' = "none" /\ res' = "ok")]_vars

\* C7: show() schedules the auto-close timer for every configured duration
\* close_after >= 0.
C7_TimerForEveryDuration ==
    [][(ShowStep /\ ~is_shown /\ auto_close_after # <<>>) => auto_timer']_vars

\* C8: the parent is disabled only while the splash is shown in block-main
\* mode with a parent (and, where the platform honours -disabled, all the
\* while); without block_main or without a parent it is never disabled.
C8_ParentDisabledOnlyWhileShown ==
    /\ parent_disabled => (is_shown /\ BlocksParent)
    /\ (is_shown /\ BlocksParent /\ disabled_supported) => parent_disabled

C8_Witness == BlocksParent /\ effects.enable = 1 /\ ~parent_disabled /\ ~is_shown

\* C9 as stated: on a shown determinate bar the value stays within
\* [0, maximum - 0.001].
C9_ValueAtMostMaxMinusGap ==
    (progressbar_spec = "determinate" /\ root = "window")
        => (0 <= pb_value /\ pb_value <= Maximum - Epsilon)

\* C9 amended: on a shown determinate bar the value stays within [0, maximum),
\* and k unit steps from a fresh bar give k while k < maximum and
\* maximum - 0.001 from then on (1, 2, 3, 4, 4.999 for maximum 5).
C9_ValueBelowMax ==
    (progressbar_spec = "determinate" /\ root = "window")
        => /\ 0 <= pb_value /\ pb_value < Maximum
           /\ unit_steps >= 0 =>
                 pb_value = IF unit_steps >= MaxProgress
                            THEN Maximum - Epsilon
                            ELSE unit_steps * One

C9_Witness ==
    /\ progressbar_spec = "determinate" /\ root = "window"
    /\ unit_steps = MaxProgress /\ pb_value = Maximum - Epsilon

\* C10: without a configured progress bar, step_progressbar and set_progress
\* raise nothing and change nothing, in every lifecycle state.
C10_NoProgressbarIsNoop ==
    [][progressbar_spec = "none" =>
          /\ StepProgressbarStep =>
                (res' # "step_progressbar_AttributeError" /\ UNCHANGED progVars)
          /\ SetProgressStep =>
                (res' # "set_progress_AttributeError" /\ UNCHANGED progVars)]_vars

\* C11: update_message(t, append=false) replaces the label text and
\* append=true extends it; on a shown window the text the label has once the
\* pending callbacks have run, in the order the parent dispatches them, is the
\* text the calls ask for in the order they were made -- so with nothing
\* pending the label shows exactly that text (attached and standalone).
C11_TextFollowsCallOrder ==
    root = "window" =>
        /\ Drain([text |-> text, bg |-> bg, wbg |-> widget_bg], parent_queue).text = expected
        /\ (\A i \in DOMAIN parent_queue : parent_queue[i].kind # "msg") => text = expected

C11_Witness ==
    /\ rootwindow /\ is_shown /\ created = 1
    /\ parent_queue = <<>> /\ text = <<"a", "b">> /\ expected = text

\* C12: once a colour update has been applied on a shown window, every element
\* that exists (window, message label, title if configured, close button if
\* configured) has the current background colour.
C12_AllElementsFollowColor ==
    root = "window" =>
        /\ widget_bg.win = bg
        /\ widget_bg.label = bg
        /\ title_text => widget_bg.title = bg
        /\ close_button => widget_bg.btn = bg

\* C13: for each of the nine named tags and every floored window size that is
\* at most the screen size, the resolved rectangle lies within
\* [0, screen width] x [0, screen height - 40].
C13_TagKeepsWindowOnScreen ==
    (geometry # <<>> /\ placement.kind = "str" /\ placement.tag \in Tags
        /\ geometry[1] <= screen[1] /\ geometry[2] <= screen[2])
    => /\ 0 <= geometry[3]
       /\ geometry[3] + geometry[1] <= screen[1]
       /\ 0 <= geometry[4]
       /\ geometry[4] + geometry[2] <= screen[2] - 40

\* C14: an explicit coordinate placement (missing fields defaulting to 100)
\* resolves to x unchanged unless x + width exceeds the screen width, then to
\* screen width - width, and to y unchanged unless y + height + 40 exceeds the
\* screen height, then to screen height - height - 40.
C14_DictPlacementClamped ==
    (geometry # <<>> /\ placement.kind = "dict")
    => LET x == IF "x" \in DOMAIN placement.dict THEN placement.dict.x ELSE 100
           y == IF "y" \in DOMAIN placement.dict THEN placement.dict.y ELSE 100
       IN  /\ geometry[3] = IF x + geometry[1] > screen[1] THEN screen[1] - geometry[1] ELSE x
           /\ geometry[4] = IF y + geometry[2] + 40 > screen[2]
                            THEN screen[2] - geometry[2] - 40 ELSE y

C14_Witness ==
    /\ placement.kind = "dict" /\ placement.dict = [x |-> 2000]
    /\ screen[1] = 800 /\ geometry # <<>>
    /\ geometry[3] = 800 - geometry[1] /\ geometry[4] = 100

\* C15: an unknown tag resolves, for every window and screen size, to the
\* geometry the tag BR resolves to; construction does not fail.
C15_UnknownTagIsBR ==
    (geometry # <<>> /\ placement.kind = "str" /\ Upper(placement.tag) \notin Tags)
    => geometry = ComputeGeometry(Placement([kind |-> "str", tag |-> "BR", dict |-> <<>>]),
                                  request[1], request[2], screen[1], screen[2],
                                  progressbar_spec # "none", title_text)

C15_Witness ==
    /\ placement.kind = "str" /\ placement.tag = "ZZ" /\ is_shown
    /\ geometry = <<300, 200, 490, 350>>

\* C16: entering the scope shows the splash and yields the controller; leaving
\* it, normally or by an exception, always runs close(), so is_shown() is
\* false afterwards, and an exception of the block is never suppressed.
C16_ScopeShowsAndAlwaysCloses ==
    [][/\ Enter => (is_shown' /\ root' = "window" /\ scope' = "inside")
       /\ \A raised \in BOOLEAN :
             Exit(raised) => (~is_shown' /\ root' # "window" /\ ~auto_timer'
                              /\ scope' = "outside" /\ exc' = raised)]_vars

C16_Witness ==
    /\ scope = "outside" /\ exc /\ ~is_shown /\ res = "ok"
    /\ created = 1 /\ effects.destroy = 1

C18_QuitsOnlyOwnLoop ==
    /\ [](rootwindow => effects.quit = 0)
    /\ [][/\ created' # created => (owns_root' <=> (~rootwindow /\ ~default_root))
          /\ effects'.quit # effects.quit =>
                (~rootwindow /\ owns_root /\ is_shown /\ ~is_shown')]_vars

C18_Witness ==
    /\ ~rootwindow /\ ~owns_root /\ ~is_shown
    /\ created = 1 /\ effects.destroy = 1 /\ effects.quit = 0

\* C19: a callback that fires after the window was torn down by another path
\* -- a delayed do_close, or a deferred update_message / update_color worker
\* of an attached controller -- mutates nothing, repeats no teardown side
\* effect and raises no error.
C19_LateCallbackIsHarmless ==
    [][/\ StaleTimerFire =>
             /\ UNCHANGED <<attrVars, viewVars, pbVars, parent_disabled, effects>>
             /\ res' \notin {"do_close_ValueError", "close_warning_logged"}
       /\ (DispatchUpdate /\ root # "window") =>
             /\ UNCHANGED <<attrVars, viewVars, pbVars, parent_disabled, effects>>
             /\ res' # "do_update_ValueError"]_vars

\* C20: with a parent, an accepted update_message leaves the label as it is
\* and puts its worker last on the parent's queue; the label of a shown window
\* then changes only when the parent dispatches a worker.  Without a parent
\* the label has the new text when the call returns.
C20_AttachedUpdateIsDeferred ==
    [][/\ \A m \in MessageInputs :
             (UpdateMessage(m.text, m.append) /\ is_shown) =>
                IF rootwindow
                THEN /\ text' = text
                     /\ parent_queue' = Append(parent_queue, MsgCallback(m.text, m.append))
                ELSE /\ text' = IF m.append THEN text \o <<m.text>> ELSE <<m.text>>
                     /\ parent_queue' = parent_queue
       /\ (rootwindow /\ root = "window" /\ root' = "window" /\ text' # text) =>
             (DispatchUpdate /\ Head(parent_queue).kind = "msg")]_vars

C20_Witness ==
    /\ rootwindow /\ is_shown /\ res = "ok"
    /\ text = Message /\ expected = <<"a">>
    /\ parent_queue = <<MsgCallback("a", FALSE)>>

\* C21: teardown cancels the auto-close timer -- when close(), a delayed close
\* or the close button tears the window down while the timer is pending, the
\* timer is cancelled in that step; no timer is pending without a window, and
\* the auto-close callback only ever runs on a shown controller.
C21_TeardownCancelsAutoClose ==
    /\ [](root # "window" => ~auto_timer)
    /\ [][/\ ((CloseStep \/ DelayedCloseFire \/ ButtonClick) /\ auto_timer /\ ~is_shown') =>
                (~auto_timer' /\ effects'.cancel = effects.cancel + 1)
          /\ AutoCloseFire => (is_shown /\ root = "window")]_vars

C21_Witness ==
    /\ auto_close_after = <<1>> /\ ~is_shown /\ root = "none" /\ ~auto_timer
    /\ created = 1 /\ effects.cancel = 1 /\ stale = 1

\* C22: is_shown() is false before the first show() and turns false again
\* only in the step that destroys the window.  After close(delay > 0), until
\* its timer fires, the controller is still shown with its window, and
\* update_message, update_color and -- on a configured progress bar --
\* step_progressbar and set_progress are accepted.
C22_ShownUntilWindowDestroyed ==
    /\ [](created = 0 => ~is_shown)
    /\ [](delayed > 0 => (is_shown /\ root = "window"))
    /\ [][/\ (is_shown /\ ~is_shown') =>
                (root = "window" /\ root' = "none" /\ effects'.destroy = effects.destroy + 1)
          /\ (Close(1) /\ is_shown) =>
                (is_shown' /\ root' = "window" /\ delayed' = delayed + 1
                 /\ effects' = effects)
          /\ delayed > 0 =>
                /\ UpdateMessageStep => res' = "ok"
                /\ UpdateColorStep => res' = "ok"
                /\ (StepProgressbarStep /\ HasProgressbar) => res' = "ok"
                /\ (SetProgressStep /\ HasProgressbar) => res' = "ok"]_vars

C22_Witness ==
    /\ delayed = 1 /\ is_shown /\ root = "window" /\ res = "ok"
    /\ progressbar_spec = "determinate" /\ pb_value = One /\ text = <<"a">>
====
